---------------------------- MODULE Spec2Model ----------------------------
(***************************************************************************)
(* Verification model of binhtran.com.                                     *)
(*                                                                         *)
(*  - src/src/components/post-preview.js: the PostPreview component, a     *)
(*    function from props to a tree of React elements.                     *)
(*  - src/content/blog/2020-first-post/2020-first-post.mdx: the movie      *)
(*    list application of the post (moviesReducer, MoviesProvider and      *)
(*    the useMoviesContext hook), in its final version (lines 315-383).    *)
(*                                                                         *)
(* A React element is a record [tag, props, children]; a string child      *)
(* ({post.title}) is a "#text" node holding the string.  A JS value whose  *)
(* type matters (a movie's year is a number in initialMovies and a string  *)
(* when it comes from the form's input) is a pair <<type, literal>>.       *)
(***************************************************************************)
EXTENDS Integers, Sequences, FiniteSets, TLC

VARIABLES
    posts,       \* page data: the Post Summaries handed to PostPreview
    rendered,    \* the renders so far: the summary passed and the tree returned
    state,       \* the state held by React.useReducer in MoviesProvider
    nextId,      \* the next identifier uuidv4() returns
    thrown,      \* the Error thrown out of moviesReducer, or NoError
    lastAction,  \* the action of the latest dispatch, or NoAction
    prevState    \* the state the latest dispatch passed to moviesReducer

vars == <<posts, rendered, state, nextId, thrown, lastAction, prevState>>

previewVars == <<posts, rendered>>
moviesVars == <<state, nextId, thrown, lastAction, prevState>>

-----------------------------------------------------------------------------
(* Bounds *)

NumPosts == 2
MaxRenders == 3
MaxAdded == 2

-----------------------------------------------------------------------------
(* React elements *)

El(tag, props, children) == [tag |-> tag, props |-> props, children |-> children]

Text(s) == [tag |-> "#text", props |-> [value |-> s], children |-> <<>>]

-----------------------------------------------------------------------------
(* Post Summaries: the component's input *)

Slugs == {"/first-post", "/second-post", "/third-post"}
Titles == {"", "React State Management"}
Excerpts == {"", "Managing state is an important part"}
Fluids == {"fluid-a", "fluid-b"}

PostSummaries ==
    [slug : Slugs, title : Titles, excerpt : Excerpts,
     image : [sharp : [fluid : Fluids]]]

-----------------------------------------------------------------------------
(* post-preview.js *)

ArticleCss == "border-bottom;margin-top;padding-bottom;:first-of-type"
ThumbnailCss == "margin;width"

\* <Link to={post.slug} css=...><Image alt={post.title} fluid={...} /></Link>
ThumbnailLink(post) ==
    El("Link", [to |-> post.slug, css |-> ThumbnailCss],
       << El("Image", [alt |-> post.title, fluid |-> post.image.sharp.fluid], <<>>) >>)

\* A title link that navigates to the title instead of the slug.
TitleHeadingToTitle(post) ==
    El("h3", [none |-> TRUE],
       << El("Link", [to |-> post.title], << Text(post.title) >>) >>)

\* <h3><Link to={post.slug}>{post.title}</Link></h3>
TitleHeading(post) ==
    El("h3", [none |-> TRUE],
       << El("Link", [to |-> post.slug], << Text(post.title) >>) >>)

\* <p>{post.excerpt}</p>
Excerpt(post) == El("p", [none |-> TRUE], << Text(post.excerpt) >>)

\* A component that numbers its articles from a render counter it keeps.
PostPreviewCounting(post) ==
    El("article", [css |-> ArticleCss, nth |-> Len(rendered)],
       << ThumbnailLink(post), TitleHeading(post), Excerpt(post) >>)

\* A component that leaves the paragraph out when the excerpt is empty
\* ({post.excerpt && <p>...</p>}).
PostPreviewSkippingEmpty(post) ==
    El("article", [css |-> ArticleCss],
       IF post.excerpt = ""
         THEN << ThumbnailLink(post), TitleHeading(post) >>
         ELSE << ThumbnailLink(post), TitleHeading(post), Excerpt(post) >>)

\* const PostPreview = ({ post }) => (<article css=...> ... </article>);
\* the JSX comment of line 30 is an empty expression and yields no child.
PostPreview(post) ==
    El("article", [css |-> ArticleCss],
       << ThumbnailLink(post), TitleHeading(post), Excerpt(post) >>)

\* A render that also rewrites the slug of the summary it was given.
RenderRewritingSlug(i) ==
    /\ Len(rendered) < MaxRenders
    /\ rendered' = Append(rendered, [post |-> posts[i], out |-> PostPreview(posts[i])])
    /\ posts' = [posts EXCEPT ![i].slug = "/third-post"]
    /\ UNCHANGED moviesVars

\* One call PostPreview({ post: posts[i] }) by the framework.
Render(i) ==
    /\ Len(rendered) < MaxRenders
    /\ rendered' = Append(rendered, [post |-> posts[i], out |-> PostPreview(posts[i])])
    /\ UNCHANGED posts
    /\ UNCHANGED moviesVars

-----------------------------------------------------------------------------
(* 2020-first-post.mdx: the movie list *)

ADD_MOVIE == "ADD_MOVIE"
MARK_WATCHED_MOVIE == "MARK_WATCHED_MOVIE"

Num(lit) == <<"number", lit>>
Str(lit) == <<"string", lit>>

NoError == "(no error)"
NoAction == [type |-> "(no dispatch)"]

\* initialMovies of ./initialState, as the post shows it; ids 1 and 2 are the
\* two uuidv4() results.
initialMovies ==
    << [id |-> 1, title |-> "The Godfather", year |-> Num("1972"), watched |-> FALSE],
       [id |-> 2, title |-> "Inception", year |-> Num("2010"), watched |-> FALSE] >>

\* const initialState = { movies: initialMovies }; the post notes that the
\* state can hold more keys (status, error).
initialState == [movies |-> initialMovies]
initialStateWithStatus == [status |-> "loading", movies |-> initialMovies, error |-> "null"]

\* getInitialMovieForm() with the fields the two inputs can hold.
MovieForms == [title : {"", "Alien"}, year : {Str(""), Str("1979")}]

UnsupportedTypes == {"REMOVE_MOVIE", "RESET"}

Returned(s) == [threw |-> FALSE, state |-> s, error |-> NoError]
Threw(msg) == [threw |-> TRUE, state |-> <<>>, error |-> msg]

\* A map that sets watched to true instead of negating it.
SetWatched(movies, id) ==
    [i \in 1..Len(movies) |->
        IF movies[i].id = id
          THEN [movies[i] EXCEPT !.watched = TRUE]
          ELSE movies[i]]

\* state.movies.map(movie => movie.id === id ? {...movie, watched: !movie.watched} : movie)
ToggleWatched(movies, id) ==
    [i \in 1..Len(movies) |->
        IF movies[i].id = id
          THEN [movies[i] EXCEPT !.watched = ~movies[i].watched]
          ELSE movies[i]]

\* A reducer that puts the new movie at the end of the list.
moviesReducerAppending(s, action) ==
    CASE action.type = ADD_MOVIE ->
           Returned([s EXCEPT !.movies = Append(s.movies, action.payload)])
      [] action.type = MARK_WATCHED_MOVIE ->
           Returned([s EXCEPT !.movies = ToggleWatched(s.movies, action.payload.id)])
      [] OTHER -> Threw("Action is not supported: " \o action.type)

\* A reducer whose default case returns the state, as the skeleton's reducer does.
moviesReducerIgnoring(s, action) ==
    CASE action.type = ADD_MOVIE ->
           Returned([s EXCEPT !.movies = <<action.payload>> \o s.movies])
      [] action.type = MARK_WATCHED_MOVIE ->
           Returned([s EXCEPT !.movies = ToggleWatched(s.movies, action.payload.id)])
      [] OTHER -> Returned(s)

\* const moviesReducer = (state, action) => { switch (action.type) ... }
moviesReducer(s, action) ==
    CASE action.type = ADD_MOVIE ->
           Returned([s EXCEPT !.movies = <<action.payload>> \o s.movies])
      [] action.type = MARK_WATCHED_MOVIE ->
           Returned([s EXCEPT !.movies = ToggleWatched(s.movies, action.payload.id)])
      [] OTHER -> Threw("Action is not supported: " \o action.type)

\* dispatch of React.useReducer(moviesReducer, initialState): the reducer's
\* result becomes the state; an Error it throws leaves the state as it was
\* and fails the application, which dispatches nothing afterwards.
dispatch(action) ==
    LET r == moviesReducer(state, action) IN
    /\ thrown = NoError
    /\ prevState' = state
    /\ lastAction' = action
    /\ IF r.threw
         THEN /\ thrown' = r.error
              /\ UNCHANGED state
         ELSE /\ state' = r.state
              /\ UNCHANGED thrown

\* addMovie of useMoviesContext: movie.id = uuidv4(); movie.watched = false;
\* dispatch({ type: ADD_MOVIE, payload: movie }).
addMovie(movie) ==
    /\ nextId <= Len(initialMovies) + MaxAdded
    /\ dispatch([type |-> ADD_MOVIE,
                 payload |-> [id |-> nextId, title |-> movie.title,
                              year |-> movie.year, watched |-> FALSE]])
    /\ nextId' = nextId + 1
    /\ UNCHANGED previewVars

\* markWatchedMovie of useMoviesContext.
markWatchedMovie(id) ==
    /\ dispatch([type |-> MARK_WATCHED_MOVIE, payload |-> [id |-> id]])
    /\ UNCHANGED nextId
    /\ UNCHANGED previewVars

\* A consumer of MoviesContext dispatching an action of another type through
\* the dispatch the provider's value holds.
dispatchOther(type) ==
    /\ dispatch([type |-> type])
    /\ UNCHANGED nextId
    /\ UNCHANGED previewVars

-----------------------------------------------------------------------------
(* Specifications *)

MovieIds == 1..(Len(initialMovies) + MaxAdded)

MoviesInit ==
    /\ state \in {initialState, initialStateWithStatus}
    /\ nextId = Len(initialMovies) + 1
    /\ thrown = NoError
    /\ lastAction = NoAction
    /\ prevState = state

\* The slug is a unique routable path: no two summaries share one.
PreviewInit ==
    /\ posts \in [1..NumPosts -> PostSummaries]
    /\ \A i, j \in 1..NumPosts : i /= j => posts[i].slug /= posts[j].slug
    /\ rendered = <<>>
    /\ state = initialState
    /\ nextId = Len(initialMovies) + 1
    /\ thrown = NoError
    /\ lastAction = NoAction
    /\ prevState = state

RenderStep == \E i \in 1..NumPosts : Render(i)
AddMovieStep == \E movie \in MovieForms : addMovie(movie)
MarkWatchedStep == \E id \in MovieIds : markWatchedMovie(id)
DispatchOtherStep == \E type \in UnsupportedTypes : dispatchOther(type)

\* The site: the framework rendering post previews.
Init == PreviewInit
Next == RenderStep
Spec == Init /\ [][Next]_vars

\* The movie list application of the post.
MoviesStart == MoviesInit /\ posts = <<>> /\ rendered = <<>>
MoviesNext == AddMovieStep \/ MarkWatchedStep \/ DispatchOtherStep
MoviesSpec == MoviesStart /\ [][MoviesNext]_vars

-----------------------------------------------------------------------------
(* Properties of PostPreview, checked under Spec *)

RECURSIVE LinksOf(_), LinksIn(_)

\* The Link elements of a tree, in document order.
LinksOf(node) ==
    (IF node.tag = "Link" THEN <<node>> ELSE <<>>) \o LinksIn(node.children)

LinksIn(nodes) ==
    IF nodes = <<>> THEN <<>> ELSE LinksOf(Head(nodes)) \o LinksIn(Tail(nodes))

\* C1: every tree PostPreview returned holds exactly two links, the first
\* wrapping the thumbnail image and the second wrapping the title, and the
\* target of both is the slug of the summary that was passed.
C1_TwoLinksToSlug ==
    \A k \in 1..Len(rendered) :
        LET post == rendered[k].post
            links == LinksOf(rendered[k].out)
        IN  /\ Len(links) = 2
            /\ Len(links[1].children) = 1
            /\ links[1].children[1].tag = "Image"
            /\ links[2].children = << Text(post.title) >>
            /\ links[1].props.to = post.slug
            /\ links[2].props.to = post.slug

C1_Witness ==
    /\ Len(rendered) = 2
    /\ rendered[1].post.slug /= rendered[2].post.slug
    /\ \A k \in 1..2 :
          /\ Len(LinksOf(rendered[k].out)) = 2
          /\ LinksOf(rendered[k].out)[2].props.to = rendered[k].post.slug

C7_ThreePartsInOrder ==
    \A k \in 1..Len(rendered) :
        LET post == rendered[k].post
            out == rendered[k].out
        IN  /\ out.tag = "article"
            /\ Len(out.children) = 3
            /\ out.children[1].tag = "Link"
            /\ out.children[1].children =
                 << El("Image", [alt |-> post.title, fluid |-> post.image.sharp.fluid], <<>>) >>
            /\ out.children[2].tag = "h3"
            /\ Len(out.children[2].children) = 1
            /\ out.children[2].children[1].tag = "Link"
            /\ out.children[2].children[1].children = << Text(post.title) >>
            /\ out.children[3].tag = "p"
            /\ out.children[3].children = << Text(post.excerpt) >>

C7_Witness ==
    \E k \in 1..Len(rendered) :
        /\ rendered[k].post.title = ""
        /\ rendered[k].post.excerpt = ""
        /\ Len(rendered[k].out.children) = 3
        /\ rendered[k].out.children[3].children = << Text("") >>

-----------------------------------------------------------------------------
(* Properties of moviesReducer, checked under MoviesSpec *)

\* Every key of the state but movies is what it was before the dispatch.
OtherKeysKept ==
    /\ DOMAIN state = DOMAIN prevState
    /\ \A key \in DOMAIN state \ {"movies"} : state[key] = prevState[key]

\* C4: after an ADD_MOVIE dispatch the list is the payload followed by the
\* previous list, one longer than before, and the other keys are kept.
C4_AddMovieOnTop ==
    lastAction.type = ADD_MOVIE =>
        /\ thrown = NoError
        /\ state.movies[1] = lastAction.payload
        /\ Len(state.movies) = Len(prevState.movies) + 1
        /\ \A i \in 1..Len(prevState.movies) : state.movies[i + 1] = prevState.movies[i]
        /\ OtherKeysKept

C4_Witness ==
    /\ lastAction.type = ADD_MOVIE
    /\ "status" \in DOMAIN state
    /\ Len(state.movies) = Len(initialMovies) + 2
    /\ state.movies[1] = lastAction.payload
    /\ \E i \in 1..Len(prevState.movies) : prevState.movies[i].watched

\* C5: after a MARK_WATCHED_MOVIE dispatch the list has the length and order
\* it had; a movie with the payload id has watched negated and its other
\* fields kept, every other movie is as it was; with no movie of that id the
\* list is unchanged.
C5_MarkWatchedToggles ==
    lastAction.type = MARK_WATCHED_MOVIE =>
        /\ thrown = NoError
        /\ Len(state.movies) = Len(prevState.movies)
        /\ \A i \in 1..Len(prevState.movies) :
              IF prevState.movies[i].id = lastAction.payload.id
                THEN state.movies[i] =
                       [prevState.movies[i] EXCEPT !.watched = ~prevState.movies[i].watched]
                ELSE state.movies[i] = prevState.movies[i]
        /\ ((\A i \in 1..Len(prevState.movies) :
                 prevState.movies[i].id /= lastAction.payload.id)
              => state.movies = prevState.movies)

\* A watched movie is unmarked, in a list that holds an added movie.
C5_Witness ==
    /\ lastAction.type = MARK_WATCHED_MOVIE
    /\ Len(state.movies) > Len(initialMovies)
    /\ \E i \in 1..Len(state.movies) :
          /\ prevState.movies[i].id = lastAction.payload.id
          /\ prevState.movies[i].watched
          /\ ~state.movies[i].watched

\* C6: a dispatch of an action of any other type makes the reducer throw an
\* Error naming the type; the state is the one before the dispatch.
C6_UnsupportedThrows ==
    (lastAction /= NoAction /\ lastAction.type \notin {ADD_MOVIE, MARK_WATCHED_MOVIE}) =>
        /\ thrown = "Action is not supported: " \o lastAction.type
        /\ thrown /= NoError
        /\ state = prevState

C6_Witness ==
    /\ lastAction.type = "REMOVE_MOVIE"
    /\ thrown = "Action is not supported: REMOVE_MOVIE"
    /\ Len(state.movies) > Len(initialMovies)
    /\ \E i \in 1..Len(state.movies) : state.movies[i].watched

=============================================================================
